---- MODULE Spec2Model ----
(***************************************************************************)
(* Model of BodyTextExtractor.py: HtmlTokenParser (the tokenizer fed by    *)
(* the HTMLParser callbacks) and HtmlBodyTextExtractor (run-length         *)
(* encoding, cumulative tag tables, optimal span search, rendering).       *)
(*                                                                         *)
(* Strings are sequences of symbols.  The symbols "<", ">", "\\", " ",     *)
(* "\n" and "\t" are the characters themselves; every other symbol         *)
(* ("Hello", "body", "a") stands for a non-empty string of letters, which  *)
(* no operation of the program looks inside.  Lists are sequences; the     *)
(* program's 0-based index k is position k+1.                              *)
(***************************************************************************)
EXTENDS Integers, Sequences, FiniteSets, TLC

VARIABLES
  tokens,               \* HtmlTokenParser.tokens
  binary_tokens,        \* HtmlTokenParser.binary_tokens
  body_start_index,     \* HtmlTokenParser.body_start_index
  break_next,           \* HtmlTokenParser.break_next
  encoded,              \* HtmlBodyTextExtractor.encoded
  total_tokens_before,  \* HtmlBodyTextExtractor.total_tokens_before
  num_tags_until,       \* HtmlBodyTextExtractor.num_tags_until
  num_tags_after,       \* HtmlBodyTextExtractor.num_tags_after
  body_txt,             \* HtmlBodyTextExtractor.body_txt
  fed,                  \* history: the parser events handled so far, in order
  closedAt,             \* history: Len(fed) at each close() call, in order
  calls,                \* history: number of body_text() calls made
  last                  \* outcome of the most recent call on the session

vars == <<tokens, binary_tokens, body_start_index, break_next, encoded,
          total_tokens_before, num_tags_until, num_tags_after, body_txt,
          fed, closedAt, calls, last>>

parserVars == <<tokens, binary_tokens, body_start_index, break_next>>
tableVars == <<encoded, total_tokens_before, num_tags_until, num_tags_after>>

----------------------------------------------------------------------------
(* Bounds of the exploration *)

MaxFeeds == 3
MaxCloses == 1
MaxCalls == 2

----------------------------------------------------------------------------
(* Module constants of BodyTextExtractor.py *)

TAG_TOKEN == 1
DATA_TOKEN == -1

LINEBREAK_ELEMENTS ==
  {"address", "article", "aside", "blockquote", "canvas", "dd", "div", "dl",
   "dt", "fieldset", "figcaption", "figure", "footer", "form", "h1", "h6",
   "header", "hr", "li", "main", "nav", "noscript", "ol", "output", "p",
   "pre", "section", "table", "tfoot", "ul", "video", "br"}

\* the characters str.split() and str.strip() treat as whitespace
Whitespace == {" ", "\n", "\t"}

----------------------------------------------------------------------------
(* List helpers with Python's semantics *)

Abs(x) == IF x < 0 THEN -x ELSE x

Min(a, b) == IF a < b THEN a ELSE b

\* s[k] for a 0-based k (the caller checks the bounds)
At(s, k) == s[k + 1]

\* 0 <= k < len(s): the read s[k] does not raise IndexError
InBounds(s, k) == k >= 0 /\ k < Len(s)

\* s[a:b] for non-negative a, b: clamps to the list, empty when a >= b
Slice(s, a, b) == SubSeq(s, a + 1, Min(b, Len(s)))

Reverse(s) == [k \in 1..Len(s) |-> s[Len(s) + 1 - k]]

DelLast(s) == SubSeq(s, 1, Len(s) - 1)

----------------------------------------------------------------------------
(* Parser events delivered by HTMLParser to the callbacks *)

StartTag(tag) == [type |-> "starttag", tag |-> tag, data |-> <<>>]
EndTag(tag) == [type |-> "endtag", tag |-> tag, data |-> <<>>]
Data(data) == [type |-> "data", tag |-> "", data |-> data]

StartTags == {"body", "p"}
EndTags == {"p", "b"}
Chunks ==
  { <<" ">>, <<"a", "\n">>, <<"a", " ", "b">>, <<"<", "a", ">", " ", "b">> }

Events ==
  {StartTag(t) : t \in StartTags} \cup {EndTag(t) : t \in EndTags}
    \cup {Data(d) : d \in Chunks}

\* <html><body><p>Hello world</p><p>Goodbye</p></body></html>
HelloDoc ==
  << StartTag("html"), StartTag("body"), StartTag("p"),
     Data(<<"Hello", " ", "world">>), EndTag("p"), StartTag("p"),
     Data(<<"Goodbye">>), EndTag("p"), EndTag("body"), EndTag("html") >>

\* the texts one feed() call can be given, as the events they parse to
Texts == {<<e>> : e \in Events} \cup {HelloDoc}

----------------------------------------------------------------------------
(* HtmlTokenParser *)

RECURSIVE SplitFrom(_, _, _)
SplitFrom(rest, cur, acc) ==
  IF rest = <<>>
  THEN IF cur = <<>> THEN acc ELSE Append(acc, cur)
  ELSE IF Head(rest) \in Whitespace
       THEN SplitFrom(Tail(rest), <<>>,
                      IF cur = <<>> THEN acc ELSE Append(acc, cur))
       ELSE SplitFrom(Tail(rest), Append(cur, Head(rest)), acc)

\* data.split(): the maximal runs of non-whitespace characters
Split(data) == SplitFrom(data, <<>>, <<>>)

\* the parser's fields as one record
Parser ==
  [tokens |-> tokens, binary_tokens |-> binary_tokens,
   body_start_index |-> body_start_index, break_next |-> break_next]

handle_data(p, data) ==
  LET split == Split(data)
      toks == IF p.break_next /\ Len(split) > 0
              THEN <<(<<"\n">> \o split[1])>> \o Tail(split)
              ELSE split
  IN [p EXCEPT !.tokens = @ \o toks,
               !.binary_tokens = @ \o [k \in 1..Len(toks) |-> DATA_TOKEN],
               !.break_next = FALSE]

\* handle_starttag that records only the first <body> open tag
handle_starttag_first(p, tag) ==
  [p EXCEPT !.binary_tokens = Append(@, TAG_TOKEN),
            !.tokens = Append(@, <<"<", tag, ">">>),
            !.body_start_index =
                IF tag = "body" /\ p.body_start_index = 0
                THEN Len(p.tokens) + 1 ELSE @]

handle_starttag(p, tag) ==
  [p EXCEPT !.binary_tokens = Append(@, TAG_TOKEN),
            !.tokens = Append(@, <<"<", tag, ">">>),
            !.body_start_index =
                IF tag = "body" THEN Len(p.tokens) + 1 ELSE @]

handle_endtag(p, tag) ==
  [p EXCEPT !.tokens = Append(@, <<"<", "\\", tag, ">">>),
            !.break_next = IF tag \in LINEBREAK_ELEMENTS THEN TRUE ELSE @,
            !.binary_tokens = Append(@, TAG_TOKEN)]

\* HTMLParser calls the callback of the event
Dispatch(p, e) ==
  CASE e.type = "starttag" -> handle_starttag(p, e.tag)
    [] e.type = "endtag" -> handle_endtag(p, e.tag)
    [] e.type = "data" -> handle_data(p, e.data)

RECURSIVE goahead(_, _)
goahead(p, text) ==
  IF text = <<>> THEN p ELSE goahead(Dispatch(p, Head(text)), Tail(text))

----------------------------------------------------------------------------
(* HtmlBodyTextExtractor *)

Init ==
  /\ tokens = <<>>
  /\ binary_tokens = <<>>
  /\ body_start_index = 0
  /\ break_next = FALSE
  /\ encoded = <<0>>
  /\ total_tokens_before = <<0>>
  /\ num_tags_until = <<0>>
  /\ num_tags_after = <<0>>
  /\ body_txt = <<>>
  /\ fed = <<>>
  /\ closedAt = <<>>
  /\ calls = 0
  /\ last = [op |-> "init", raised |-> FALSE, searched |-> FALSE,
             value |-> <<>>, span |-> <<>>]

\* feed(text) with a check that the session is still open
FeedChecked(text) ==
  /\ fed = <<>> \/ Len(fed) + Len(text) <= MaxFeeds
  /\ IF closedAt # <<>>
     THEN /\ UNCHANGED parserVars
          /\ last' = [op |-> "feed", raised |-> TRUE, searched |-> FALSE,
                      value |-> <<>>, span |-> <<>>]
     ELSE /\ LET p == goahead(Parser, text)
             IN /\ tokens' = p.tokens
                /\ binary_tokens' = p.binary_tokens
                /\ body_start_index' = p.body_start_index
                /\ break_next' = p.break_next
          /\ last' = [op |-> "feed", raised |-> FALSE, searched |-> FALSE,
                      value |-> <<>>, span |-> <<>>]
  /\ fed' = fed \o text
  /\ UNCHANGED <<tableVars, body_txt, closedAt, calls>>

\* feed(text): text has been through _remove_unreadable; no state is checked
Feed(text) ==
  /\ fed = <<>> \/ Len(fed) + Len(text) <= MaxFeeds
  /\ LET p == goahead(Parser, text)
     IN /\ tokens' = p.tokens
        /\ binary_tokens' = p.binary_tokens
        /\ body_start_index' = p.body_start_index
        /\ break_next' = p.break_next
  /\ fed' = fed \o text
  /\ last' = [op |-> "feed", raised |-> FALSE, searched |-> FALSE,
              value |-> <<>>, span |-> <<>>]
  /\ UNCHANGED <<tableVars, body_txt, closedAt, calls>>

RECURSIVE CountTokensLoop(_, _, _, _)
\* the loop of _count_cumulative_tokens; i is the 0-based run index
CountTokensLoop(bt, enc, ttb, i) ==
  IF bt = <<>>
  THEN [encoded |-> enc, total_tokens_before |-> ttb]
  ELSE LET token == Head(bt)
           boundary == Abs(token + At(enc, i)) < Abs(At(enc, i))
           enc1 == IF boundary THEN Append(enc, 0) ELSE enc
           ttb1 == IF boundary THEN Append(ttb, ttb[Len(ttb)]) ELSE ttb
           i1 == IF boundary THEN i + 1 ELSE i
       IN CountTokensLoop(Tail(bt),
                          [enc1 EXCEPT ![i1 + 1] = @ + token],
                          [ttb1 EXCEPT ![i1 + 1] = @ + 1],
                          i1)

\* _count_cumulative_tokens on the current lists, ending with insert(0, 0)
count_cumulative_tokens(bt, enc, ttb) ==
  LET r == CountTokensLoop(bt, enc, ttb, 0)
  IN [encoded |-> r.encoded,
      total_tokens_before |-> <<0>> \o r.total_tokens_before]

RECURSIVE TagSumLoop(_, _, _)
\* for token in seq: if token > 0: t += token; acc.append(t)
TagSumLoop(seq, t, acc) ==
  IF seq = <<>>
  THEN acc
  ELSE LET t1 == IF Head(seq) > 0 THEN t + Head(seq) ELSE t
       IN TagSumLoop(Tail(seq), t1, Append(acc, t1))

\* _count_cumulative_tags without num_tags_after.reverse()
count_cumulative_tags_unreversed(enc, ntu, nta) ==
  [num_tags_until |-> DelLast(TagSumLoop(enc, 0, ntu)),
   num_tags_after |-> Tail(TagSumLoop(Reverse(enc), 0, nta))]

\* _count_cumulative_tags on the current lists
count_cumulative_tags(enc, ntu, nta) ==
  [num_tags_until |-> DelLast(TagSumLoop(enc, 0, ntu)),
   num_tags_after |-> Tail(Reverse(TagSumLoop(Reverse(enc), 0, nta)))]

\* close(): HTMLParser.close() delivers no further event in this model
Close ==
  /\ Len(closedAt) < MaxCloses
  /\ LET r == count_cumulative_tokens(binary_tokens, encoded,
                                      total_tokens_before)
         g == count_cumulative_tags(r.encoded, num_tags_until, num_tags_after)
     IN /\ encoded' = r.encoded
        /\ total_tokens_before' = r.total_tokens_before
        /\ num_tags_until' = g.num_tags_until
        /\ num_tags_after' = g.num_tags_after
  /\ closedAt' = Append(closedAt, Len(fed))
  /\ last' = [op |-> "close", raised |-> FALSE, searched |-> FALSE,
              value |-> <<>>, span |-> <<>>]
  /\ UNCHANGED <<parserVars, body_txt, fed, calls>>

\* the reads of _objective_fcn(i, j) are all inside the lists
ObjectiveInBounds(i, j) ==
  /\ InBounds(num_tags_after, j)
  /\ InBounds(total_tokens_before, i) /\ InBounds(num_tags_until, i)
  /\ InBounds(total_tokens_before, j) /\ InBounds(num_tags_until, j)

objective_fcn(i, j) ==
  LET tags_after_j == At(num_tags_after, j)
      text_to_i == At(total_tokens_before, i) - At(num_tags_until, i)
      text_to_j == At(total_tokens_before, j) - At(num_tags_until, j)
      text_between_i_j == text_to_j - text_to_i
  IN At(num_tags_until, i) + tags_after_j + text_between_i_j

RECURSIVE SpanLoopKeepLast(_, _, _)
\* the nested loops updating on score >= score_max: ties keep the last pair
SpanLoopKeepLast(i, j, best) ==
  IF i >= Len(encoded) - 1 THEN best
  ELSE IF At(encoded, i) > 0 THEN SpanLoopKeepLast(i + 1, i + 1, best)
  ELSE IF j >= Len(encoded) THEN SpanLoopKeepLast(i + 1, i + 1, best)
  ELSE IF At(encoded, j) > 0 THEN SpanLoopKeepLast(i, j + 1, best)
  ELSE IF ~ObjectiveInBounds(i, j) THEN [best EXCEPT !.raised = TRUE]
  ELSE LET score == objective_fcn(i, j)
       IN SpanLoopKeepLast(i, j + 1,
                           IF score >= best.score_max
                           THEN [best EXCEPT !.score_max = score,
                                             !.i_max = i, !.j_max = j]
                           ELSE best)

RECURSIVE SpanLoop(_, _, _)
\* the nested loops of _find_optimal_span, at outer index i and inner index j
SpanLoop(i, j, best) ==
  IF i >= Len(encoded) - 1 THEN best
  ELSE IF At(encoded, i) > 0 THEN SpanLoop(i + 1, i + 1, best)
  ELSE IF j >= Len(encoded) THEN SpanLoop(i + 1, i + 1, best)
  ELSE IF At(encoded, j) > 0 THEN SpanLoop(i, j + 1, best)
  ELSE IF ~ObjectiveInBounds(i, j) THEN [best EXCEPT !.raised = TRUE]
  ELSE LET score == objective_fcn(i, j)
       IN SpanLoop(i, j + 1,
                   IF score > best.score_max
                   THEN [best EXCEPT !.score_max = score,
                                     !.i_max = i, !.j_max = j]
                   ELSE best)

\* _find_optimal_span(): raised stands for IndexError
find_optimal_span ==
  LET best == SpanLoop(body_start_index, body_start_index,
                       [raised |-> FALSE, score_max |-> 0,
                        i_max |-> body_start_index,
                        j_max |-> Len(encoded) - 1])
  IN IF best.raised
        \/ ~InBounds(total_tokens_before, best.i_max)
        \/ ~InBounds(total_tokens_before, best.j_max)
     THEN [raised |-> TRUE, start |-> 0, end |-> 0]
     ELSE [raised |-> FALSE,
           start |-> At(total_tokens_before, best.i_max),
           end |-> At(total_tokens_before, best.j_max)]

is_tag(s) == s[1] = "<" /\ s[Len(s)] = ">"

RECURSIVE Join(_, _)
\* sep.join(strs)
Join(sep, strs) ==
  IF strs = <<>> THEN <<>>
  ELSE IF Len(strs) = 1 THEN strs[1]
  ELSE strs[1] \o sep \o Join(sep, Tail(strs))

RECURSIVE Filter(_, _)
\* [s for s in strs if keep[s]], keep given as the set of kept positions
Filter(strs, keep) ==
  IF strs = <<>> THEN <<>>
  ELSE LET rest == Filter(DelLast(strs), keep)
       IN IF Len(strs) \in keep THEN Append(rest, strs[Len(strs)]) ELSE rest

RECURSIVE CollapseSpaces(_)
\* MULTI_SPACES_REGEX.sub(' ', text)
CollapseSpaces(text) ==
  IF Len(text) < 2 THEN text
  ELSE IF text[1] = " " /\ text[2] = " " THEN CollapseSpaces(Tail(text))
  ELSE <<text[1]>> \o CollapseSpaces(Tail(text))

RECURSIVE SplitOn(_, _, _, _)
SplitOn(c, rest, cur, acc) ==
  IF rest = <<>> THEN Append(acc, cur)
  ELSE IF Head(rest) = c THEN SplitOn(c, Tail(rest), <<>>, Append(acc, cur))
  ELSE SplitOn(c, Tail(rest), Append(cur, Head(rest)), acc)

\* text.split('\n'): pieces between newlines, empty pieces kept
SplitLines(text) == SplitOn("\n", text, <<>>, <<>>)

RECURSIVE LStrip(_)
LStrip(t) == IF t # <<>> /\ Head(t) \in Whitespace THEN LStrip(Tail(t)) ELSE t

RECURSIVE RStrip(_)
RStrip(t) ==
  IF t # <<>> /\ t[Len(t)] \in Whitespace THEN RStrip(DelLast(t)) ELSE t

\* t.strip()
Strip(t) == RStrip(LStrip(t))

\* the rendering of body_text() for the span (start, end)
Render(start, end) ==
  LET slice == Slice(tokens, start, end)
      words == Filter(slice, {k \in 1..Len(slice) : ~is_tag(slice[k])})
      text == CollapseSpaces(Join(<<" ">>, words))
      lines == SplitLines(text)
  IN Join(<<"\n">>, [k \in 1..Len(lines) |-> Strip(lines[k])])

\* body_text(): an IndexError of the search leaves body_txt as it was
BodyText ==
  /\ calls < MaxCalls
  /\ calls' = calls + 1
  /\ IF body_txt # <<>>
     THEN /\ last' = [op |-> "body_text", raised |-> FALSE,
                      searched |-> FALSE, value |-> body_txt, span |-> <<>>]
          /\ UNCHANGED body_txt
     ELSE LET s == find_optimal_span
          IN IF s.raised
             THEN /\ last' = [op |-> "body_text", raised |-> TRUE,
                              searched |-> TRUE, value |-> <<>>,
                              span |-> <<>>]
                  /\ UNCHANGED body_txt
             ELSE /\ body_txt' = Render(s.start, s.end)
                  /\ last' = [op |-> "body_text", raised |-> FALSE,
                              searched |-> TRUE, value |-> body_txt',
                              span |-> <<s.start, s.end>>]
  /\ UNCHANGED <<parserVars, tableVars, fed, closedAt>>

Next ==
  \/ \E text \in Texts : Feed(text)
  \/ Close
  \/ BodyText

Spec == Init /\ [][Next]_vars

----------------------------------------------------------------------------
(* Vocabulary of the properties *)

\* close() has been called exactly once and nothing was fed after it
Finalized == Len(closedAt) = 1 /\ closedAt[1] = Len(fed)

\* the last call was a body_text() that ran the span search
Searched == last.op = "body_text" /\ last.searched

\* the last call was a body_text() that returned
Returned == last.op = "body_text" /\ ~last.raised

\* 0-based indices of the runs of encoded
RunIndices == 0..(Len(encoded) - 1)

\* number of tokens of class c with 0-based token index in lo..hi-1
CountClass(c, lo, hi) ==
  Cardinality({k \in 1..Len(binary_tokens) :
                 k - 1 >= lo /\ k - 1 < hi /\ binary_tokens[k] = c})

\* number of tokens one event appends
NumTokens(e) == IF e.type = "data" THEN Len(Split(e.data)) ELSE 1

RECURSIVE TokensAfter(_, _)
\* number of tokens appended by the first n events of evs
TokensAfter(evs, n) ==
  IF n = 0 THEN 0 ELSE TokensAfter(evs, n - 1) + NumTokens(evs[n])

\* positions in fed of the <body> open tags
BodyOpens == {k \in 1..Len(fed) : fed[k] = StartTag("body")}

MinOf(S) == CHOOSE x \in S : \A y \in S : x <= y
MaxOf(S) == CHOOSE x \in S : \A y \in S : x >= y

----------------------------------------------------------------------------
(* C1: for the event stream of                                             *)
(* <html><body><p>Hello world</p><p>Goodbye</p></body></html>, feed, one   *)
(* close() and body_text() return 'Hello world\nGoodbye'.                  *)
C1_HelloWorldGoodbye ==
  (fed = HelloDoc /\ Finalized /\ last.op = "body_text")
    => (~last.raised
        /\ last.value = <<"Hello", " ", "world", "\n", "Goodbye">>)

(* C2: for a token stream of tag tokens only, feed, close(), body_text()   *)
(* raises no exception and returns the empty string.                       *)
C2_PureMarkupEmpty ==
  (Finalized /\ last.op = "body_text"
     /\ \A k \in 1..Len(binary_tokens) : binary_tokens[k] = TAG_TOKEN)
    => (~last.raised /\ last.value = <<>>)

(* C3 (as stated): body_text() before close() and feed() after close()     *)
(* each end in a precondition failure instead of returning normally.       *)
C3_LifecycleEnforced ==
  /\ (last.op = "body_text" /\ closedAt = <<>>) => last.raised
  /\ (last.op = "feed" /\ closedAt # <<>>) => last.raised

(* C3 (amended): close() is not enforced as a lifecycle transition.        *)
(* feed() after close() returns normally and every event fed, before or    *)
(* after close(), has appended its tokens; body_text() before close()      *)
(* returns the empty string when body_start_index is 0 and raises          *)
(* IndexError exactly when body_start_index is not 0.                      *)
C3_LifecycleNotEnforced ==
  /\ (last.op = "feed" /\ closedAt # <<>>)
       => (~last.raised /\ Len(tokens) = TokensAfter(fed, Len(fed)))
  /\ (last.op = "body_text" /\ closedAt = <<>>)
       => /\ last.raised <=> body_start_index # 0
          /\ ~last.raised => last.value = <<>>

\* a feed() after close() returned and the token list outgrew the tables
C3_Witness ==
  /\ last.op = "feed" /\ ~last.raised
  /\ closedAt # <<>> /\ Len(fed) > closedAt[1]
  /\ Len(tokens) > total_tokens_before[Len(total_tokens_before)]

\* the word tokens (classification -1) with 0-based index in start..end-1,
\* in document order, without the newline marker of handle_data
WordTokensIn(start, end) ==
  LET ws == Filter(tokens, {k \in 1..Len(tokens) :
                              /\ k - 1 >= start /\ k - 1 < end
                              /\ binary_tokens[k] = DATA_TOKEN})
  IN [k \in 1..Len(ws) |-> Strip(ws[k])]

(* C4: after close(), the text body_text() returns is made of exactly the  *)
(* word tokens (classification -1) of the optimal span [start, end), in    *)
(* document order, and of no tag token.                                    *)
C4_RendersWordTokens ==
  (Finalized /\ Searched /\ ~last.raised)
    => Split(last.value) = WordTokensIn(last.span[1], last.span[2])

(* C5: once the close tag of a line-break element has been handled, the    *)
(* pending flag stays set until the next text chunk that yields a word,    *)
(* whose first word gets a newline prepended; chunks that yield no word    *)
(* and tag events in between do not consume the flag.                      *)
C5_FlagKeptUntilWord ==
  [][\A e \in Events :
       fed' = Append(fed, e) =>
         /\ (e.type = "endtag" /\ e.tag \in LINEBREAK_ELEMENTS) => break_next'
         /\ break_next =>
              IF e.type = "data" /\ Split(e.data) # <<>>
              THEN tokens'[Len(tokens) + 1] = <<"\n">> \o Split(e.data)[1]
              ELSE break_next']_vars

(* C6 (as stated): body_start_index is 0 if no <body> open tag has been    *)
(* handled and otherwise the token index following the first <body> open   *)
(* tag handled; a later <body> open tag does not change it.                *)
C6_FirstBodyOpen ==
  body_start_index =
    IF BodyOpens = {} THEN 0 ELSE TokensAfter(fed, MinOf(BodyOpens))

(* C6 (amended): body_start_index is 0 if no <body> open tag has been      *)
(* handled and otherwise the token index following the last <body> open    *)
(* tag handled: every <body> open tag sets it again, no other event        *)
(* changes it.                                                             *)
C6_LastBodyOpen ==
  body_start_index =
    IF BodyOpens = {} THEN 0 ELSE TokensAfter(fed, MaxOf(BodyOpens))

\* two <body> open tags have been handled, with a token in between
C6_Witness ==
  /\ Cardinality(BodyOpens) >= 2
  /\ MaxOf(BodyOpens) > MinOf(BodyOpens) + 1
  /\ body_start_index > TokensAfter(fed, MinOf(BodyOpens)) + 1

(* C7: in a finalized session the span search runs at most once: a         *)
(* body_text() call that follows one that returned does not search again.  *)
C7_SearchAtMostOnce ==
  [][(Finalized /\ Returned /\ calls' = calls + 1) => ~last'.searched]_vars

\* the score of the runs i..j counted on the token classification
DirectScore(i, j) ==
  CountClass(TAG_TOKEN, 0, At(total_tokens_before, i))
    + CountClass(TAG_TOKEN, At(total_tokens_before, j), Len(binary_tokens))
    + CountClass(DATA_TOKEN, At(total_tokens_before, i),
                 At(total_tokens_before, j))

(* C8: after one close(), for all word runs i <= j the O(1) score          *)
(* _objective_fcn(i, j) equals tags before total_tokens_before[i] plus     *)
(* tags from total_tokens_before[j] on plus words in between, counted on   *)
(* the token sequence.                                                     *)
C8_ScoreIsDirectCount ==
  Finalized =>
    \A i, j \in RunIndices :
      (i <= j /\ At(encoded, i) <= 0 /\ At(encoded, j) <= 0)
        => objective_fcn(i, j) = DirectScore(i, j)

\* two word runs with tags before, between and after them
C8_Witness ==
  /\ Finalized
  /\ \E i, j \in RunIndices :
       /\ i < j /\ At(encoded, i) < 0 /\ At(encoded, j) < 0
       /\ At(num_tags_until, i) > 0 /\ At(num_tags_after, j) > 0
       /\ CountClass(DATA_TOKEN, At(total_tokens_before, i),
                      At(total_tokens_before, j)) > 0
       /\ CountClass(TAG_TOKEN, At(total_tokens_before, i),
                      At(total_tokens_before, j)) > 0

\* the pairs (i, j) of runs with value <= 0, body_start_index <= i <= hi
\* and i <= j <= len(encoded) - 1
CandidatePairs(hi) ==
  {p \in RunIndices \X RunIndices :
     /\ body_start_index <= p[1] /\ p[1] <= hi /\ p[1] <= p[2]
     /\ At(encoded, p[1]) <= 0 /\ At(encoded, p[2]) <= 0}

\* the pair of P with the maximum score, the first in (i, then j) order
\* among those of equal score
FirstMaximizer(P) ==
  CHOOSE p \in P :
    \A q \in P :
      \/ objective_fcn(p[1], p[2]) > objective_fcn(q[1], q[2])
      \/ /\ objective_fcn(p[1], p[2]) = objective_fcn(q[1], q[2])
         /\ (p[1] < q[1] \/ (p[1] = q[1] /\ p[2] <= q[2]))

\* some pair of P scores strictly above 0
SomePositive(P) == \E p \in P : objective_fcn(p[1], p[2]) > 0

\* the token range of the runs i..j
TokenRange(i, j) == <<At(total_tokens_before, i), At(total_tokens_before, j)>>

C10_SpanInBounds ==
  (Finalized /\ Searched)
    => /\ ~last.raised
       /\ 0 <= last.span[1] /\ last.span[1] <= last.span[2]
       /\ last.span[2] <= Len(tokens)
====
